---- MODULE Spec2Model ----
(***************************************************************************)
(* Model of the importance-scored long-term memory store of                *)
(* backend/app/memory_system.py: MemoryItem, MemoryImportanceCalculator    *)
(* and LangChainMemorySystem in its fallback configuration (no vector      *)
(* store), with the SQLite table `memories` as the persisted state.        *)
(*                                                                         *)
(* Text is a sequence of characters.  An ASCII character is the one-letter *)
(* string itself; any other character is named by its code point           *)
(* ("u4e0d" is U+4E0D).  Scores are exact integers: an importance score s  *)
(* of the program is the integer s * IScale, a decay factor f is f * 100.  *)
(* Time is counted in clock ticks, TicksPerDay of them to a day.           *)
(***************************************************************************)
EXTENDS Integers, Sequences, FiniteSets, TLC

VARIABLES workload, clock, memory_items, db, call

vars == <<workload, clock, memory_items, db, call>>

(***************************************************************************)
(* Bounds of the model.                                                    *)
(***************************************************************************)
\* _manage_memory_limit(max_memories=200), scaled down
max_memories == 2
\* resolution of datetime.now() relative to a day
TicksPerDay == 1
\* last clock reading explored
MaxClock == 1
\* largest `limit` passed to the keyword retrieval
MaxLimit == 2

IScale == 10000

(***************************************************************************)
(* str primitives: lower(), strip(), split(), `in`, len()                  *)
(***************************************************************************)
\* str.lower() changes the letters A-Z; the other characters of the texts
\* of the model have no case
LowerCase ==
    [A |-> "a", B |-> "b", C |-> "c", D |-> "d", E |-> "e", F |-> "f", G |-> "g",
     H |-> "h", I |-> "i", J |-> "j", K |-> "k", L |-> "l", M |-> "m", N |-> "n",
     O |-> "o", P |-> "p", Q |-> "q", R |-> "r", S |-> "s", T |-> "t", U |-> "u",
     V |-> "v", W |-> "w", X |-> "x", Y |-> "y", Z |-> "z"]

LowerChar(c) == IF c \in DOMAIN LowerCase THEN LowerCase[c] ELSE c

Lower(s) == [i \in 1..Len(s) |-> LowerChar(s[i])]

\* the whitespace characters that occur in the texts of the model
IsSpace(c) == c \in {" ", "u3000"}

Strip(s) ==
    LET idx == {i \in 1..Len(s) : ~IsSpace(s[i])}
    IN  IF idx = {} THEN <<>>
        ELSE LET lo == CHOOSE i \in idx : \A j \in idx : i <= j
                 hi == CHOOSE i \in idx : \A j \in idx : j <= i
             IN  SubSeq(s, lo, hi)

\* s.split(): the maximal runs of non-whitespace characters, in order
Split(s) ==
    LET n == Len(s)
        starts == {i \in 1..n : ~IsSpace(s[i]) /\ (i = 1 \/ IsSpace(s[i - 1]))}
        EndOf(i) == CHOOSE j \in i..n :
                        /\ \A k \in i..j : ~IsSpace(s[k])
                        /\ (j = n \/ IsSpace(s[j + 1]))
        Nth(k) == CHOOSE i \in starts : Cardinality({j \in starts : j < i}) = k - 1
    IN  [k \in 1..Cardinality(starts) |-> SubSeq(s, Nth(k), EndOf(Nth(k)))]

\* sub in s
Contains(s, sub) ==
    \E i \in 0..(Len(s) - Len(sub)) : \A k \in 1..Len(sub) : s[i + k] = sub[k]

SeqToSet(s) == {s[i] : i \in 1..Len(s)}

\* k1 > k2 for two sort keys, tuples of numbers of one length
KeyGreater(k1, k2) ==
    \E i \in 1..Len(k1) : k1[i] > k2[i] /\ \A j \in 1..(i - 1) : k1[j] = k2[j]

\* mutant: an ascending sort that is reversed afterwards, so that equal keys
\* come out in the opposite order
StableSortDesc_Reversed(s, keys) ==
    LET n == Len(s)
        rank(i) == 1 + Cardinality({j \in 1..n :
                        \/ KeyGreater(keys[j], keys[i])
                        \/ keys[j] = keys[i] /\ j > i})
    IN  [k \in 1..n |-> s[CHOOSE i \in 1..n : rank(i) = k]]

\* list.sort(key=..., reverse=True), keys[i] being the key of s[i]:
\* descending, equal keys keep their order
StableSortDesc(s, keys) ==
    LET n == Len(s)
        rank(i) == 1 + Cardinality({j \in 1..n :
                        \/ KeyGreater(keys[j], keys[i])
                        \/ keys[j] = keys[i] /\ j < i})
    IN  [k \in 1..n |-> s[CHOOSE i \in 1..n : rank(i) = k]]

(***************************************************************************)
(* MemoryItem                                                              *)
(***************************************************************************)
MemoryItem(id, user_id, content, memory_type, importance_score, timestamp, metadata) ==
    [id |-> id, user_id |-> user_id, content |-> content,
     memory_type |-> memory_type, importance_score |-> importance_score,
     timestamp |-> timestamp, metadata |-> metadata]

\* (datetime.now() - timestamp).days
DaysAgo(now, timestamp) == (now - timestamp) \div TicksPerDay

persistent_types == {"symptoms", "goals", "medication", "personality", "work_status"}

Max(a, b) == IF a >= b THEN a ELSE b
Min(a, b) == IF a <= b THEN a ELSE b

\* mutant: the persistent categories decay like the others
DecayFactor_NoFloor(memory_type, days_ago) ==
    IF days_ago = 0 THEN 100
    ELSE IF days_ago <= 1 THEN 95
    ELSE IF days_ago <= 7 THEN 85
    ELSE IF days_ago <= 30 THEN 65
    ELSE IF days_ago <= 90 THEN 45
    ELSE 25

\* decay factor of get_current_importance, in hundredths
DecayFactor(memory_type, days_ago) ==
    LET decay_factor ==
            IF days_ago = 0 THEN 100
            ELSE IF days_ago <= 1 THEN 95
            ELSE IF days_ago <= 7 THEN 85
            ELSE IF days_ago <= 30 THEN 65
            ELSE IF days_ago <= 90 THEN 45
            ELSE 25
    IN  IF memory_type \in persistent_types THEN Max(decay_factor, 70)
        ELSE decay_factor

\* MemoryItem.get_current_importance, scaled by IScale * 100
GetCurrentImportance(memory, now) ==
    memory.importance_score * DecayFactor(memory.memory_type, DaysAgo(now, memory.timestamp))

(***************************************************************************)
(* MemoryImportanceCalculator                                              *)
(***************************************************************************)
\* TYPE_IMPORTANCE_WEIGHTS, in tenths
TYPE_IMPORTANCE_WEIGHTS ==
    [emotional_state |-> 9, symptoms |-> 8, goals |-> 7, triggers |-> 8,
     coping_methods |-> 6, support_system |-> 5, work_status |-> 7,
     medication |-> 8, concerns |-> 9, experiences |-> 6, personality |-> 4,
     daily_routine |-> 3, family |-> 4, age |-> 2, location |-> 1]

\* TYPE_IMPORTANCE_WEIGHTS.get(memory_type, 0.5)
BaseScore(memory_type) ==
    IF memory_type \in DOMAIN TYPE_IMPORTANCE_WEIGHTS
    THEN TYPE_IMPORTANCE_WEIGHTS[memory_type]
    ELSE 5

EMOTIONAL_KEYWORDS ==
    [high |-> {
        <<"u4e0d", "u5b89">>,
        <<"u82e6", "u3057", "u3044">>,
        <<"u8f9b", "u3044">>,
        <<"u6b7b", "u306b", "u305f", "u3044">>,
        <<"u7d76", "u671b">>,
        <<"u30d1", "u30cb", "u30c3", "u30af">>,
        <<"u767a", "u4f5c">>,
        <<"u9650", "u754c">> },
     medium |-> {
        <<"u5fc3", "u914d">>,
        <<"u60a9", "u307f">>,
        <<"u56f0", "u3063", "u305f">>,
        <<"u75b2", "u308c", "u305f">>,
        <<"u30b9", "u30c8", "u30ec", "u30b9">>,
        <<"u843d", "u3061", "u8fbc", "u307f">>,
        <<"u6182", "u9b31">> },
     low |-> {
        <<"u6c17", "u306b", "u306a", "u308b">>,
        <<"u5c11", "u3057">>,
        <<"u3061", "u3087", "u3063", "u3068">>,
        <<"u6642", "u3005">> }]

\* sum(1 for word in EMOTIONAL_KEYWORDS[level] if word in content_lower)
KeywordCount(level, content_lower) ==
    Cardinality({w \in EMOTIONAL_KEYWORDS[level] : Contains(content_lower, w)})

\* mutant: the high and the medium keywords are looked at before the hedges
EmotionalScore_KeywordsFirst(high_count, medium_count, low_count) ==
    IF high_count > 0 THEN 9
    ELSE IF medium_count > 0 THEN 6
    ELSE IF low_count > 0 THEN 3
    ELSE 5

\* the value _calculate_emotional_importance returns for the three counts, in tenths
EmotionalScore(high_count, medium_count, low_count) ==
    IF low_count > 0
    THEN IF high_count > 0 THEN 6
         ELSE IF medium_count > 0 THEN 4
         ELSE 3
    ELSE IF high_count > 0 THEN 9
    ELSE IF medium_count > 0 THEN 6
    ELSE 5

LowerCounts(content_lower) ==
    EmotionalScore(KeywordCount("high", content_lower),
                   KeywordCount("medium", content_lower),
                   KeywordCount("low", content_lower))

\* _calculate_emotional_importance, in tenths
CalculateEmotionalImportance(content) == LowerCounts(Lower(content))

\* metadata.get("timestamp"): absent, a text fromisoformat rejects (or an
\* offset-aware one, whose subtraction from now raises), or an instant
NoTimestamp == [kind |-> "none", t |-> 0]
BadTimestamp == [kind |-> "bad", t |-> 0]
IsoTimestamp(t) == [kind |-> "iso", t |-> t]

\* _calculate_temporal_importance, in tenths
CalculateTemporalImportance(timestamp_str, now) ==
    IF timestamp_str.kind = "none" THEN 5
    ELSE IF timestamp_str.kind = "bad" THEN 5
    ELSE LET days_ago == DaysAgo(now, timestamp_str.t)
         IN  IF days_ago <= 1 THEN 10
             ELSE IF days_ago <= 7 THEN 8
             ELSE IF days_ago <= 30 THEN 6
             ELSE 3

\* _calculate_length_importance, in tenths
CalculateLengthImportance(content) ==
    LET length == Len(content)
    IN  IF length > 100 THEN 8
        ELSE IF length > 50 THEN 6
        ELSE IF length > 20 THEN 4
        ELSE 2

\* the multiplier of the emotional score, in tenths
EmotionalMultiplier(emotional_score) ==
    IF emotional_score >= 9 THEN 15
    ELSE IF emotional_score >= 6 THEN 12
    ELSE IF emotional_score <= 4 THEN 7
    ELSE IF emotional_score <= 3 THEN 5
    ELSE 10

\* the multiplier of the temporal score, in tenths
TemporalMultiplier(temporal_score, emotional_score) ==
    IF temporal_score >= 8 /\ emotional_score >= 5 THEN 13
    ELSE IF temporal_score <= 3 THEN 6
    ELSE 10

\* the multiplier of the length score, in tenths
LengthMultiplier(length_score) == IF length_score >= 8 THEN 11 ELSE 10

\* mutant: the product is returned without the clamp
FinalScore_Unclamped(base_score, emotional_score, temporal_score, length_score) ==
    base_score * EmotionalMultiplier(emotional_score)
               * TemporalMultiplier(temporal_score, emotional_score)
               * LengthMultiplier(length_score)

\* final_score of calculate_importance: base (tenths) times the three
\* multipliers (tenths each) is the score times IScale; clamped to [0.1, 1.0]
FinalScore(base_score, emotional_score, temporal_score, length_score) ==
    Min(Max(base_score * EmotionalMultiplier(emotional_score)
                       * TemporalMultiplier(temporal_score, emotional_score)
                       * LengthMultiplier(length_score),
            IScale \div 10),
        IScale)

\* calculate_importance
CalculateImportance(content, memory_type, metadata, now) ==
    FinalScore(BaseScore(memory_type),
               CalculateEmotionalImportance(content),
               CalculateTemporalImportance(metadata.timestamp, now),
               CalculateLengthImportance(content))

(***************************************************************************)
(* The SQLite table `memories`: a sequence of rows in rowid order, with    *)
(* id as primary key.  timestamp and metadata are stored as text.          *)
(***************************************************************************)
\* datetime.isoformat() and datetime.fromisoformat()
Isoformat(t) == <<"iso", t>>
FromIsoformat(text) == text[2]

\* json.dumps(metadata, ensure_ascii=False) and json.loads()
JsonDumps(metadata) == <<"json", metadata.timestamp.kind, metadata.timestamp.t>>
JsonLoads(text) == [timestamp |-> [kind |-> text[2], t |-> text[3]]]

\* the row _save_memory_to_db writes for a MemoryItem
RowOf(memory) ==
    [id |-> memory.id, user_id |-> memory.user_id, content |-> memory.content,
     memory_type |-> memory.memory_type,
     importance_score |-> memory.importance_score,
     timestamp |-> Isoformat(memory.timestamp),
     metadata |-> JsonDumps(memory.metadata)]

\* the MemoryItem _load_memories_from_db builds from a row
ItemOfRow(row) ==
    MemoryItem(row.id, row.user_id, row.content, row.memory_type,
               row.importance_score, FromIsoformat(row.timestamp),
               JsonLoads(row.metadata))

\* INSERT OR REPLACE INTO memories: a row with the same id is deleted first
SaveMemoryToDb(rows, memory) ==
    SelectSeq(rows, LAMBDA r : r.id # memory.id) \o <<RowOf(memory)>>

\* DELETE FROM memories WHERE id = ?, for every removed memory
DeleteFromDb(rows, removed_memories) ==
    SelectSeq(rows, LAMBDA r : \A i \in 1..Len(removed_memories) : removed_memories[i].id # r.id)

\* _load_memories_from_db on a fresh instance: rows grouped by user_id
LoadMemoriesFromDb(rows) ==
    LET users == {rows[i].user_id : i \in 1..Len(rows)}
        Mine(u) == SelectSeq(rows, LAMBDA r : r.user_id = u)
    IN  [u \in users |-> [i \in 1..Len(Mine(u)) |-> ItemOfRow(Mine(u)[i])]]

(***************************************************************************)
(* LangChainMemorySystem: quality gate                                     *)
(***************************************************************************)
MIN_LENGTH == 5
\* MIN_IMPORTANCE = 0.15
MIN_IMPORTANCE == 1500

generic_patterns == {
    <<"u306f", "u3044">>,
    <<"u3044", "u3044", "u3048">>,
    <<"u305d", "u3046", "u3067", "u3059">>,
    <<"u3042", "u308a", "u304c", "u3068", "u3046">>,
    <<"u3088", "u308d", "u3057", "u304f">> }

\* _similarity_ratio after lower() and strip(), as the fraction
\* <<numerator, denominator>>
\* mutant: containment is looked for in one direction only
RatioOfLowered_OneWay(s1_lower, s2_lower) ==
    LET longer == Max(Len(s1_lower), Len(s2_lower))
        shorter == Min(Len(s1_lower), Len(s2_lower))
    IN  IF s1_lower = <<>> \/ s2_lower = <<>> THEN <<0, 1>>
        ELSE IF Contains(s2_lower, s1_lower)
             THEN <<shorter, longer>>
        ELSE LET words1 == SeqToSet(Split(s1_lower))
                 words2 == SeqToSet(Split(s2_lower))
                 intersection == Cardinality(words1 \cap words2)
                 union == Cardinality(words1 \cup words2)
             IN  IF words1 = {} \/ words2 = {} THEN <<0, 1>>
                 ELSE IF union > 0 THEN <<intersection, union>>
                 ELSE <<0, 1>>

RatioOfLowered(s1_lower, s2_lower) ==
    LET longer == Max(Len(s1_lower), Len(s2_lower))
        shorter == Min(Len(s1_lower), Len(s2_lower))
    IN  IF s1_lower = <<>> \/ s2_lower = <<>> THEN <<0, 1>>
        ELSE IF Contains(s2_lower, s1_lower) \/ Contains(s1_lower, s2_lower)
             THEN <<shorter, longer>>
        ELSE LET words1 == SeqToSet(Split(s1_lower))
                 words2 == SeqToSet(Split(s2_lower))
                 intersection == Cardinality(words1 \cap words2)
                 union == Cardinality(words1 \cup words2)
             IN  IF words1 = {} \/ words2 = {} THEN <<0, 1>>
                 ELSE IF union > 0 THEN <<intersection, union>>
                 ELSE <<0, 1>>

\* _similarity_ratio
SimilarityRatio(s1, s2) == RatioOfLowered(Strip(Lower(s1)), Strip(Lower(s2)))

\* ratio > 0.9
Over90(ratio) == 10 * ratio[1] > 9 * ratio[2]

\* mutant: the contents are compared in lower case
IsExactDuplicate_IgnoreCase(existing_memory, content) ==
    Lower(Strip(existing_memory.content)) = Lower(Strip(content))

\* the two duplicate tests of _is_quality_memory against one existing memory
IsExactDuplicate(existing_memory, content) ==
    Strip(existing_memory.content) = Strip(content)

\* mutant: the category is not compared
IsSimilarDuplicate_AnyType(existing_memory, content, memory_type) ==
    /\ Len(content) > 20
    /\ Over90(SimilarityRatio(existing_memory.content, content))

\* mutant: the threshold is 0.99
IsSimilarDuplicate_Over99(existing_memory, content, memory_type) ==
    /\ existing_memory.memory_type = memory_type
    /\ Len(content) > 20
    /\ 100 * SimilarityRatio(existing_memory.content, content)[1]
            > 99 * SimilarityRatio(existing_memory.content, content)[2]

IsSimilarDuplicate(existing_memory, content, memory_type) ==
    /\ existing_memory.memory_type = memory_type
    /\ Len(content) > 20
    /\ Over90(SimilarityRatio(existing_memory.content, content))

\* the duplicate loop of _is_quality_memory: hits are the existing memories
\* at which it returns
DuplicateVerdict(existing, content, hits) ==
    IF hits = {} THEN [is_valid |-> TRUE, reason |-> "OK"]
    ELSE IF IsExactDuplicate(existing[CHOOSE i \in hits : \A j \in hits : i <= j], content)
         THEN [is_valid |-> FALSE, reason |-> "exact duplicate"]
         ELSE [is_valid |-> FALSE, reason |-> "similar duplicate"]

\* mutant: the exact match is looked for in the candidate's category only
DuplicateCheck_SameTypeOnly(existing, content, memory_type) ==
    DuplicateVerdict(existing, content,
        {i \in 1..Len(existing) :
            /\ existing[i].memory_type = memory_type
            /\ \/ IsExactDuplicate(existing[i], content)
               \/ IsSimilarDuplicate(existing[i], content, memory_type)})

DuplicateCheck(existing, content, memory_type) ==
    DuplicateVerdict(existing, content,
        {i \in 1..Len(existing) :
            \/ IsExactDuplicate(existing[i], content)
            \/ IsSimilarDuplicate(existing[i], content, memory_type)})

\* mutant: the single-word check comes before the length check
QualityVerdict_SingleWordFirst(content, stripped, duplicate) ==
    IF Len(Split(content)) = 1 /\ Len(content) < 10
    THEN [is_valid |-> FALSE, reason |-> "single word"]
    ELSE IF Len(stripped) < MIN_LENGTH
    THEN [is_valid |-> FALSE, reason |-> "too short"]
    ELSE IF ~duplicate.is_valid
    THEN duplicate
    ELSE IF stripped \in generic_patterns
    THEN [is_valid |-> FALSE, reason |-> "too generic"]
    ELSE [is_valid |-> TRUE, reason |-> "OK"]

\* the verdict of _is_quality_memory, given that of its duplicate loop
QualityVerdict(content, stripped, duplicate) ==
    IF Len(stripped) < MIN_LENGTH
    THEN [is_valid |-> FALSE, reason |-> "too short"]
    ELSE IF Len(Split(content)) = 1 /\ Len(content) < 10
    THEN [is_valid |-> FALSE, reason |-> "single word"]
    ELSE IF ~duplicate.is_valid
    THEN duplicate
    ELSE IF stripped \in generic_patterns
    THEN [is_valid |-> FALSE, reason |-> "too generic"]
    ELSE [is_valid |-> TRUE, reason |-> "OK"]

\* mutant: an empty user_id is rejected by the first check
IsQualityMemory_NoEmptyUser(content, memory_type, user_id, items) ==
    IF user_id = ""
    THEN [is_valid |-> FALSE, reason |-> "too short"]
    ELSE QualityVerdict(content, Strip(content),
            DuplicateCheck(IF user_id \in DOMAIN items THEN items[user_id] ELSE <<>>,
                           content, memory_type))

\* _is_quality_memory: (is_valid, reason)
IsQualityMemory(content, memory_type, user_id, items) ==
    QualityVerdict(content, Strip(content),
        DuplicateCheck(IF user_id \in DOMAIN items THEN items[user_id] ELSE <<>>,
                       content, memory_type))

(***************************************************************************)
(* LangChainMemorySystem: eviction and keyword retrieval                   *)
(***************************************************************************)
\* key=lambda m: (m.importance_score, m.timestamp)
RankKey(m) == <<m.importance_score, m.timestamp>>

\* the keys of a list of memories
RankKeys(memories) == [i \in 1..Len(memories) |-> RankKey(memories[i])]

\* mutant: the limit is compared one too high
ManageMemoryLimit_OffByOne(memories) ==
    IF Len(memories) <= max_memories + 1
    THEN [kept |-> memories, removed |-> <<>>]
    ELSE LET sorted == StableSortDesc(memories, RankKeys(memories))
         IN  [kept |-> SubSeq(sorted, 1, max_memories),
              removed |-> SubSeq(sorted, max_memories + 1, Len(sorted))]

\* mutant: the sort without reverse=True
ManageMemoryLimit_Ascending(memories) ==
    IF Len(memories) <= max_memories
    THEN [kept |-> memories, removed |-> <<>>]
    ELSE LET sorted == StableSortDesc(memories,
                       [i \in 1..Len(memories) |-> <<0 - memories[i].importance_score,
                                                      0 - memories[i].timestamp>>])
         IN  [kept |-> SubSeq(sorted, 1, max_memories),
              removed |-> SubSeq(sorted, max_memories + 1, Len(sorted))]

\* _manage_memory_limit on the user's list: what is kept and what is removed
ManageMemoryLimit(memories) ==
    IF Len(memories) <= max_memories
    THEN [kept |-> memories, removed |-> <<>>]
    ELSE LET sorted == StableSortDesc(memories, RankKeys(memories))
         IN  [kept |-> SubSeq(sorted, 1, max_memories),
              removed |-> SubSeq(sorted, max_memories + 1, Len(sorted))]

\* the number of query words found in the content
WordsFound(content_lower, query_words) ==
    Cardinality({i \in 1..Len(query_words) : Contains(content_lower, query_words[i])})

KeywordScore(memory, query) == WordsFound(Lower(memory.content), Split(Lower(query)))

\* mutant: the keyword score is weighted by the decayed importance
SearchScore_Decayed(memory, query) ==
    KeywordScore(memory, query) * GetCurrentImportance(memory, clock)

\* the score _fallback_memory_search gives a memory
SearchScore(memory, query) == KeywordScore(memory, query) * memory.importance_score

\* mutant: memories of score 0 are kept
FallbackMemorySearch_KeepsZero(items, user_id, query, limit) ==
    IF user_id \notin DOMAIN items THEN <<>>
    ELSE LET scored_memories == SelectSeq(items[user_id], LAMBDA m : SearchScore(m, query) >= 0)
             sorted == StableSortDesc(scored_memories,
                           [i \in 1..Len(scored_memories) |->
                                <<SearchScore(scored_memories[i], query)>>])
         IN  SubSeq(sorted, 1, Min(limit, Len(sorted)))

\* _fallback_memory_search
FallbackMemorySearch(items, user_id, query, limit) ==
    IF user_id \notin DOMAIN items THEN <<>>
    ELSE LET scored_memories == SelectSeq(items[user_id], LAMBDA m : SearchScore(m, query) > 0)
             sorted == StableSortDesc(scored_memories,
                           [i \in 1..Len(scored_memories) |->
                                <<SearchScore(scored_memories[i], query)>>])
         IN  SubSeq(sorted, 1, Min(limit, Len(sorted)))

\* mutant: total_memories counts the categories, not the records
GetMemoryStats_CountsCategories(items, user_id) ==
    IF user_id \notin DOMAIN items
    THEN [total_memories |-> 0, by_type |-> [t \in {} |-> 0], avg_importance |-> <<0, 1>>]
    ELSE LET memories == items[user_id]
             n == Len(memories)
             total_importance[i \in 0..n] ==
                 IF i = 0 THEN 0
                 ELSE total_importance[i - 1] + memories[i].importance_score
         IN  [total_memories |-> Cardinality({memories[i].memory_type : i \in 1..n}),
              by_type |-> [t \in {memories[i].memory_type : i \in 1..n} |->
                              Cardinality({i \in 1..n : memories[i].memory_type = t})],
              avg_importance |-> IF n > 0 THEN <<total_importance[n], n>> ELSE <<0, 1>>,
              langchain_enabled |-> FALSE]

\* get_memory_stats(user_id).  avg_importance, the quotient
\* total_importance / len(memories), is the pair <<total_importance, len>>;
\* 0.0 is <<0, 1>>.
GetMemoryStats(items, user_id) ==
    IF user_id \notin DOMAIN items
    THEN [total_memories |-> 0, by_type |-> [t \in {} |-> 0], avg_importance |-> <<0, 1>>]
    ELSE LET memories == items[user_id]
             n == Len(memories)
             total_importance[i \in 0..n] ==
                 IF i = 0 THEN 0
                 ELSE total_importance[i - 1] + memories[i].importance_score
         IN  [total_memories |-> n,
              by_type |-> [t \in {memories[i].memory_type : i \in 1..n} |->
                              Cardinality({i \in 1..n : memories[i].memory_type = t})],
              avg_importance |-> IF n > 0 THEN <<total_importance[n], n>> ELSE <<0, 1>>,
              langchain_enabled |-> FALSE]

\* an entry of the list GET /api/memories/{user_id} returns
MemoryView(memory, now) ==
    [id |-> memory.id, content |-> memory.content, memory_type |-> memory.memory_type,
     importance_score_original |-> memory.importance_score,
     importance_score_current |-> GetCurrentImportance(memory, now),
     days_ago |-> DaysAgo(now, memory.timestamp),
     timestamp |-> Isoformat(memory.timestamp), metadata |-> memory.metadata]

\* the list GET /api/memories/{user_id} returns: the user's memories by
\* current importance, highest first (sorted() is stable)
UserMemories(items, user_id, now) ==
    IF user_id \notin DOMAIN items THEN <<>>
    ELSE LET sorted_memories ==
                 StableSortDesc(items[user_id],
                     [i \in 1..Len(items[user_id]) |->
                         <<GetCurrentImportance(items[user_id][i], now)>>])
         IN  [i \in 1..Len(sorted_memories) |-> MemoryView(sorted_memories[i], now)]

\* mutant: the sort by importance is done on the user's list itself, as in
\* summarize_memories
AfterSearch_SortsInPlace(items, user_id) ==
    IF user_id \notin DOMAIN items THEN items
    ELSE [items EXCEPT ![user_id] =
            StableSortDesc(items[user_id],
                [i \in 1..Len(items[user_id]) |-> <<items[user_id][i].importance_score>>])]

\* memory_items after _fallback_memory_search: the matches are collected in
\* a list of their own, scored_memories, and that list is the one sorted
AfterSearch(items, user_id) == items

(***************************************************************************)
(* Inputs: the store_memory requests and the retrieval queries explored    *)
(***************************************************************************)
c_hai == <<"u306f", "u3044">>
c_walk == <<"u6563", "u6b69", "u304c", "u597d", "u304d", "u3067", "u3059">>
c_thanks == <<"u3042", "u308a", "u304c", "u3068", "u3046", " ", " ", " ", " ", " ">>
c_anxious == <<"u4eca", "u65e5", "u306f", "u4e0d", "u5b89", "u304c", "u5f37", "u304f",
               "u3066", "u8f9b", "u304b", "u3063", "u305f", "u3067", "u3059">>
c_wake20 == <<"I", " ", "w", "a", "k", "e", " ", "u", "p", " ", "e", "v", "e", "r", "y",
              " ", "h", "o", "u", "r">>
c_wake22 == c_wake20 \o <<"l", "y">>
c_wake23 == c_wake22 \o <<".">>
\* c_wake20 and c_wake23 with one word in capitals
c_WAKE20 == <<"I", " ", "W", "A", "K", "E">> \o SubSeq(c_wake20, 7, 20)
c_WAKE23 == c_WAKE20 \o <<"l", "y", ".">>
\* "a b a b", and "a  b" followed by 17 spaces: the same words, 21 characters,
\* 4 of them left by strip()
c_abab == <<"a", " ", "b", " ", "a", " ", "b">>
c_ab_padded == <<"a", " ", " ", "b">> \o [i \in 1..17 |-> " "]
\* the contents of test_similarity_detection
c_sleepless == <<"u4e0d", "u5b89", "u3067", "u591c", "u7720", "u308c", "u306a", "u3044",
                 "u3053", "u3068", "u304c", "u591a", "u3044", "u3067", "u3059">>
c_sleepless_ni == <<"u4e0d", "u5b89", "u3067", "u591c", "u306b", "u7720", "u308c", "u306a",
                    "u3044", "u3053", "u3068", "u304c", "u591a", "u3044">>
c_some_anxiety == <<"u4e0d", "u5b89", "u304c", "u3042", "u308a", "u307e", "u3059">>
c_morning == <<"u671d", "u306f", "u5143", "u6c17", "u3067", "u3059">>
c_headache == <<"u6700", "u8fd1", "u306f", "u982d", "u75db", "u304c", "u7d9a", "u3044",
                "u3066", "u3044", "u307e", "u3059">>
c_tokyo == <<"u6771", "u4eac", "u90fd", "u306b", "u4f4f", "u3093", "u3067", "u3044",
             "u307e", "u3059">>
c_routine == <<"u6bce", "u671d", "7", "u6642", "u306b", "u8d77", "u304d", "u3066", "u3044",
               "u307e", "u3059">>

\* contents with a hedge word: next to a high keyword, next to a medium
\* keyword (test_importance_calculation), and alone
c_little_anxious == <<"u5c11", "u3057", "u4e0d", "u5b89", "u3067", "u3059">>
c_little_worried == <<"u5c11", "u3057", "u5fc3", "u914d", "u3067", "u3059">>
c_little_curious == <<"u5c11", "u3057", "u6c17", "u306b", "u306a", "u308b", "u3053", "u3068",
                      "u304c", "u3042", "u308a", "u307e", "u3059">>
\* a content with a medium keyword only
c_stress == <<"u6700", "u8fd1", "u30b9", "u30c8", "u30ec", "u30b9", "u304c", "u591a", "u3044",
              "u3067", "u3059">>
\* a content of more than 100 characters with a high keyword
c_long_anxious == c_anxious \o [i \in 1..101 |-> "a"]
\* the content of the records of test_time_decay
c_test == <<"u30c6", "u30b9", "u30c8", "u8a18", "u61b6">>

Request(user_id, content, memory_type, timestamp_str) ==
    [user_id |-> user_id, content |-> content, memory_type |-> memory_type,
     metadata |-> [timestamp |-> timestamp_str]]

\* a timestamp more than 30 days before the first clock reading
OldTimestamp == IsoTimestamp(0 - 31 * TicksPerDay)

q_anxiety == <<"u4e0d", "u5b89">>
q_wake == <<"w", "a", "k", "e", " ", "H", "O", "U", "R">>
q_blank == <<" ", " ", " ">>
q_empty == <<>>

\* The inputs of one run: the store_memory requests and the retrieval
\* queries issued in it, and whether the SQLite insert may raise in it.
Workload(requests, queries, db_errors) ==
    [requests |-> requests, queries |-> queries, db_errors |-> db_errors]

Workloads == {
    \* the quality gate: short, single word, generic, low importance, valid
    Workload({Request("u1", c_hai, "concerns", NoTimestamp),
              Request("u1", c_walk, "coping_methods", NoTimestamp),
              Request("u1", c_thanks, "concerns", NoTimestamp),
              Request("u1", c_tokyo, "location", NoTimestamp),
              Request("u1", c_anxious, "location", NoTimestamp),
              Request("u1", c_anxious, "emotional_state", NoTimestamp)},
             {q_anxiety}, FALSE),
    \* contents of one category that contain one another
    Workload({Request("u1", c_wake20, "symptoms", NoTimestamp),
              Request("u1", c_wake22, "symptoms", NoTimestamp),
              Request("u1", c_wake23, "symptoms", NoTimestamp)},
             {q_wake}, FALSE),
    \* more records of equal importance than the capacity
    Workload({Request("u1", c_wake20, "symptoms", NoTimestamp),
              Request("u1", c_wake23, "symptoms", NoTimestamp),
              Request("u1", c_headache, "symptoms", NoTimestamp)},
             {q_wake}, FALSE),
    \* records of different importance, one content in two categories
    Workload({Request("u1", c_anxious, "emotional_state", NoTimestamp),
              Request("u1", c_wake20, "symptoms", NoTimestamp),
              Request("u1", c_routine, "daily_routine", NoTimestamp),
              Request("u1", c_routine, "experiences", OldTimestamp)},
             {q_anxiety}, FALSE),
    \* two users
    Workload({Request("u1", c_anxious, "emotional_state", NoTimestamp),
              Request("u1", c_wake20, "symptoms", NoTimestamp),
              Request("u2", c_anxious, "emotional_state", NoTimestamp),
              Request("u2", c_routine, "daily_routine", NoTimestamp)},
             {q_anxiety}, FALSE),
    \* a database whose insert may raise
    Workload({Request("u1", c_anxious, "emotional_state", NoTimestamp),
              Request("u1", c_wake20, "symptoms", NoTimestamp),
              Request("u1", c_routine, "daily_routine", NoTimestamp)},
             {q_anxiety}, TRUE),
    \* retrieval
    Workload({Request("u1", c_anxious, "emotional_state", NoTimestamp),
              Request("u1", c_wake20, "symptoms", NoTimestamp),
              Request("u1", c_wake23, "symptoms", NoTimestamp)},
             {q_anxiety, q_wake, q_blank, q_empty}, FALSE),
    \* contents of 20 characters that differ in letter case only
    Workload({Request("u1", c_wake20, "symptoms", NoTimestamp),
              Request("u1", c_WAKE20, "symptoms", NoTimestamp),
              Request("u1", c_WAKE20, "concerns", NoTimestamp)},
             {q_wake}, FALSE),
    \* contents of 23 characters that differ in letter case only
    Workload({Request("u1", c_wake23, "symptoms", NoTimestamp),
              Request("u1", c_WAKE23, "symptoms", NoTimestamp),
              Request("u1", c_WAKE23, "concerns", NoTimestamp)},
             {q_wake}, FALSE),
    \* a content too short once trimmed that has the words of a stored one
    Workload({Request("u1", c_abab, "symptoms", NoTimestamp),
              Request("u1", c_ab_padded, "symptoms", NoTimestamp),
              Request("u1", c_headache, "symptoms", NoTimestamp)},
             {q_wake}, FALSE),
    \* test_similarity_detection
    Workload({Request("u1", c_sleepless, "symptoms", NoTimestamp),
              Request("u1", c_sleepless_ni, "symptoms", NoTimestamp),
              Request("u1", c_some_anxiety, "symptoms", NoTimestamp),
              Request("u1", c_morning, "symptoms", NoTimestamp)},
             {q_anxiety}, FALSE),
    \* a content that repeats a record and resembles an earlier one
    Workload({Request("u1", c_wake23, "symptoms", NoTimestamp),
              Request("u1", c_wake22, "concerns", NoTimestamp),
              Request("u1", c_wake22, "symptoms", NoTimestamp)},
             {q_wake}, FALSE),
    \* records of one category and one clock reading, the last one of
    \* higher importance
    Workload({Request("u1", c_headache, "symptoms", NoTimestamp),
              Request("u1", c_wake20, "symptoms", NoTimestamp),
              Request("u1", c_sleepless, "symptoms", NoTimestamp)},
             {q_wake}, FALSE),
    \* an empty user_id, an empty content
    Workload({Request("", c_anxious, "emotional_state", NoTimestamp),
              Request("", <<>>, "concerns", NoTimestamp),
              Request("u1", <<>>, "concerns", NoTimestamp),
              Request("u1", c_headache, "symptoms", NoTimestamp)},
             {q_anxiety}, FALSE) }

UsersOf(w) == {r.user_id : r \in w.requests}

(***************************************************************************)
(* State                                                                   *)
(***************************************************************************)
EmptyId == <<>>

\* mutant: the id is built without the user_id
MemoryId_NoUser(user_id, now, memory_type) == <<"", now, memory_type>>

\* memory_id = f"{user_id}_{datetime.now().isoformat()}_{memory_type}"
MemoryId(user_id, now, memory_type) == <<user_id, now, memory_type>>

NoCall == [op |-> "none"]

Init ==
    /\ workload \in Workloads
    /\ clock = 0
    /\ memory_items = [u \in {} |-> <<>>]
    /\ db = <<>>
    /\ call = NoCall

(***************************************************************************)
(* Operations                                                              *)
(***************************************************************************)
Outcome(status, reason, ret, items, rows, removed, memory_item) ==
    [status |-> status, reason |-> reason, ret |-> ret, items |-> items,
     rows |-> rows, removed |-> removed, item |-> memory_item]

\* mutant: one list object shared by all users
WithList_Shared(items, user_id, l) ==
    [u \in DOMAIN items \cup {user_id} |-> l]

\* items with the user's list replaced by l
WithList(items, user_id, l) ==
    [u \in DOMAIN items \cup {user_id} |-> IF u = user_id THEN l ELSE items[u]]

\* the end of store_memory: the row is written, the limit applied, the id returned
Persisted(items, rows, memory_item, limited) ==
    Outcome("stored", "OK", memory_item.id,
            WithList(items, memory_item.user_id, limited.kept),
            DeleteFromDb(SaveMemoryToDb(rows, memory_item), limited.removed),
            limited.removed, memory_item)

\* store_memory from the append on
InsertMemory(items, rows, memory_item, appended, save_raises) ==
    IF save_raises
    THEN Outcome("raised", "save", EmptyId,
                 WithList(items, memory_item.user_id, appended), rows, <<>>, memory_item)
    ELSE Persisted(items, rows, memory_item, ManageMemoryLimit(appended))

\* mutant: an importance equal to the threshold is rejected too
Gated_AtThreshold(items, rows, memory_item, quality, save_raises) ==
    IF ~quality.is_valid
    THEN Outcome("rejected", quality.reason, EmptyId, items, rows, <<>>, memory_item)
    ELSE IF memory_item.importance_score <= MIN_IMPORTANCE
    THEN Outcome("rejected", "low importance", EmptyId, items, rows, <<>>, memory_item)
    ELSE InsertMemory(items, rows, memory_item,
                      Append(IF memory_item.user_id \in DOMAIN items
                             THEN items[memory_item.user_id] ELSE <<>>, memory_item),
                      save_raises)

\* mutant: the user's list is created before the quality check
Gated_CreatesList(items, rows, memory_item, quality, save_raises) ==
    IF ~quality.is_valid \/ memory_item.importance_score < MIN_IMPORTANCE
    THEN Outcome("rejected",
                 IF quality.is_valid THEN "low importance" ELSE quality.reason, EmptyId,
                 WithList(items, memory_item.user_id,
                          IF memory_item.user_id \in DOMAIN items
                          THEN items[memory_item.user_id] ELSE <<>>),
                 rows, <<>>, memory_item)
    ELSE InsertMemory(items, rows, memory_item,
                      Append(IF memory_item.user_id \in DOMAIN items
                             THEN items[memory_item.user_id] ELSE <<>>, memory_item),
                      save_raises)

\* store_memory from the quality check on
Gated(items, rows, memory_item, quality, save_raises) ==
    IF ~quality.is_valid
    THEN Outcome("rejected", quality.reason, EmptyId, items, rows, <<>>, memory_item)
    ELSE IF memory_item.importance_score < MIN_IMPORTANCE
    THEN Outcome("rejected", "low importance", EmptyId, items, rows, <<>>, memory_item)
    ELSE InsertMemory(items, rows, memory_item,
                      Append(IF memory_item.user_id \in DOMAIN items
                             THEN items[memory_item.user_id] ELSE <<>>, memory_item),
                      save_raises)

\* store_memory(user_id, content, memory_type, metadata) called at clock
\* reading `now` (the readings of datetime.now() within one call fall on
\* the same tick).  save_raises: the SQLite insert of _save_memory_to_db
\* raises.
StoreMemoryOutcome(items, rows, req, now, save_raises) ==
    Gated(items, rows,
          MemoryItem(MemoryId(req.user_id, now, req.memory_type), req.user_id,
                     req.content, req.memory_type,
                     CalculateImportance(req.content, req.memory_type, req.metadata, now),
                     now, req.metadata),
          IsQualityMemory(req.content, req.memory_type, req.user_id, items),
          save_raises)

\* what the last operation was given and what it did; `before` is the
\* state it started from, `repeat` says that the operation before it was a
\* store_memory of the same user and content that returned an id
CallOf(req, o, items, rows, repeat) ==
    [op |-> "store_memory", user_id |-> req.user_id, content |-> req.content,
     memory_type |-> req.memory_type, metadata |-> req.metadata,
     status |-> o.status, reason |-> o.reason, ret |-> o.ret,
     removed |-> o.removed, item |-> o.item,
     before |-> [items |-> items, rows |-> rows], repeat |-> repeat]

\* the rows of the table and the records in memory, as sets
DbRows == SeqToSet(db)
MemoryRows == UNION {{RowOf(memory_items[u][i]) : i \in 1..Len(memory_items[u])} :
                        u \in DOMAIN memory_items}

\* the call returns or raises: its effects become the state
Complete(req, o) ==
    /\ memory_items' = o.items
    /\ db' = o.rows
    /\ call' = CallOf(req, o, memory_items, db,
                       /\ call.op = "store_memory"
                       /\ call.status = "stored"
                       /\ call.user_id = req.user_id
                       /\ call.content = req.content)
    /\ UNCHANGED <<workload, clock>>

\* store_memory with a working database
StoreMemory(req) ==
    Complete(req, StoreMemoryOutcome(memory_items, db, req, clock, FALSE))

\* store_memory in which the SQLite insert raises; at most one such failure
\* is outstanding at a time
DbErrorOutcome(req, o) ==
    /\ o.status = "raised"
    /\ Complete(req, o)

StoreMemoryDbError(req) ==
    /\ workload.db_errors
    /\ DbRows = MemoryRows
    /\ DbErrorOutcome(req, StoreMemoryOutcome(memory_items, db, req, clock, TRUE))

\* _fallback_memory_search(user_id, query, limit)
Search(user_id, query, limit) ==
    /\ call' = [op |-> "search", user_id |-> user_id, query |-> query, limit |-> limit,
                now |-> clock,
                out |-> FallbackMemorySearch(memory_items, user_id, query, limit),
                before |-> [items |-> memory_items, rows |-> db]]
    /\ memory_items' = AfterSearch(memory_items, user_id)
    /\ UNCHANGED <<workload, clock, db>>

\* GET /api/memories/{user_id}: get_current_importance of every memory of
\* the user, and get_memory_stats
GetUserMemories(user_id) ==
    /\ call' = [op |-> "get_user_memories", user_id |-> user_id, now |-> clock,
                memories |-> UserMemories(memory_items, user_id, clock),
                stats |-> GetMemoryStats(memory_items, user_id),
                before |-> [items |-> memory_items, rows |-> db]]
    /\ UNCHANGED <<workload, clock, memory_items, db>>

\* a new process: LangChainMemorySystem.__init__ reloads the table
Restart ==
    /\ memory_items' = LoadMemoriesFromDb(db)
    /\ call' = [op |-> "restart"]
    /\ UNCHANGED <<workload, clock, db>>

\* time passes
Tick ==
    /\ clock < MaxClock
    /\ clock' = clock + 1
    /\ UNCHANGED <<workload, memory_items, db, call>>

Next ==
    \/ \E req \in workload.requests : StoreMemory(req)
    \/ \E req \in workload.requests : StoreMemoryDbError(req)
    \/ \E user_id \in UsersOf(workload), query \in workload.queries, limit \in 0..MaxLimit :
            Search(user_id, query, limit)
    \/ \E user_id \in UsersOf(workload) : GetUserMemories(user_id)
    \/ Restart
    \/ Tick

Spec == Init /\ [][Next]_vars

(***************************************************************************)
(* The calculator and the decay on their own: calculate_importance and     *)
(* get_current_importance applied to inputs, as tests/test_importance.py   *)
(* applies them.                                                           *)
(***************************************************************************)
\* the contents given to calculate_importance
CalcContents == {c_anxious, c_walk, c_stress, c_little_anxious, c_little_worried,
                 c_little_curious, c_wake20, c_long_anxious}

\* the categories: those of TYPE_IMPORTANCE_WEIGHTS and one that is not
CalcTypes == DOMAIN TYPE_IMPORTANCE_WEIGHTS \cup {"hobby"}

\* metadata["timestamp"]: absent, unparsable, in the future, today, and 2, 8
\* and 31 days before the first clock reading
CalcTimestamps ==
    {NoTimestamp, BadTimestamp} \cup
    {IsoTimestamp(0 - d * TicksPerDay) : d \in {0 - 3, 0, 2, 8, 31}}

\* the inputs of one category
CalcWorkloads ==
    {Workload({Request("test_user", c, t, ts) : c \in CalcContents, ts \in CalcTimestamps},
              {}, FALSE) : t \in CalcTypes}

\* base_score of test_time_decay and of test_persistent_types
TestScores == {9000, 8000}

\* ages of the records of the decay tests, in ticks: the days of the table
\* of get_current_importance and the days next to them, at the first and
\* at the last tick of the day, and a timestamp ahead of the clock
DecayAges ==
    {d * TicksPerDay + e : d \in {0 - 1, 0, 1, 2, 7, 8, 30, 31, 90, 91, 365},
                           e \in {0, TicksPerDay - 1}}

CalcInit ==
    /\ workload \in CalcWorkloads
    /\ clock = 0
    /\ memory_items = [u \in {} |-> <<>>]
    /\ db = <<>>
    /\ call = NoCall

\* calculate_importance with the values of its locals: what it was given,
\* the four scores, the factor applied for the emotional score, and what
\* it returns
Calculated(req, now, base_score, emotional_score, temporal_score, length_score) ==
    [op |-> "calculate_importance", content |-> req.content,
     memory_type |-> req.memory_type, metadata |-> req.metadata, now |-> now,
     base_score |-> base_score, emotional_score |-> emotional_score,
     temporal_score |-> temporal_score, length_score |-> length_score,
     emotional_multiplier |-> EmotionalMultiplier(emotional_score),
     ret |-> FinalScore(base_score, emotional_score, temporal_score, length_score)]

\* MemoryImportanceCalculator.calculate_importance(content, memory_type, metadata)
CalculateImportanceCall(req) ==
    /\ call' = Calculated(req, clock, BaseScore(req.memory_type),
                          CalculateEmotionalImportance(req.content),
                          CalculateTemporalImportance(req.metadata.timestamp, clock),
                          CalculateLengthImportance(req.content))
    /\ UNCHANGED <<workload, clock, memory_items, db>>

\* test_time_decay, test_persistent_types: get_current_importance of a
\* record made `age` ticks before now
GetCurrentImportanceCall(memory_type, importance_score, age) ==
    /\ call' = [op |-> "get_current_importance",
                memory |-> MemoryItem(<<"test_id">>, "test_user", c_test, memory_type,
                                      importance_score, clock - age,
                                      [timestamp |-> NoTimestamp]),
                now |-> clock,
                ret |-> GetCurrentImportance(
                            MemoryItem(<<"test_id">>, "test_user", c_test, memory_type,
                                       importance_score, clock - age,
                                       [timestamp |-> NoTimestamp]),
                            clock)]
    /\ UNCHANGED <<workload, clock, memory_items, db>>

CalcNext ==
    \/ \E req \in workload.requests : CalculateImportanceCall(req)
    \/ \E memory_type \in {req.memory_type : req \in workload.requests},
          importance_score \in TestScores, age \in DecayAges :
            GetCurrentImportanceCall(memory_type, importance_score, age)
    \/ Tick

CalcSpec == CalcInit /\ [][CalcNext]_vars

(***************************************************************************)
(* Vocabulary of the properties                                            *)
(***************************************************************************)
\* the user's collection, empty when the user has none
ListOf(items, user_id) == IF user_id \in DOMAIN items THEN items[user_id] ELSE <<>>

\* all records held in memory, and all records a restart would load
RecordsOf(items) == UNION {SeqToSet(items[u]) : u \in DOMAIN items}

WithinCapacity(items) == \A u \in DOMAIN items : Len(items[u]) <= max_memories

\* (importance_score, timestamp) of d is not greater than that of r
PairNotGreater(d, r) ==
    \/ d.importance_score < r.importance_score
    \/ d.importance_score = r.importance_score /\ d.timestamp <= r.timestamp

JustStored == call.op = "store_memory" /\ call.status = "stored"
JustRejected == call.op = "store_memory" /\ call.status = "rejected"
JustRaised == call.op = "store_memory" /\ call.status = "raised"

(***************************************************************************)
(* C1.  Capacity: a store_memory call that returns (stored or rejected),   *)
(* started with every user at or below max_memories records, leaves every  *)
(* user at or below max_memories records.                                  *)
(***************************************************************************)
C1_CapacityInvariant ==
    (JustStored \/ JustRejected) /\ WithinCapacity(call.before.items)
        => WithinCapacity(memory_items)

\* an insert into a full collection has evicted down to the capacity
C1_Witness ==
    /\ JustStored
    /\ Len(ListOf(call.before.items, call.user_id)) = max_memories
    /\ Len(memory_items[call.user_id]) = max_memories

(***************************************************************************)
(* C2.  Eviction order: when an insert pushes a user's count above the     *)
(* capacity, exactly max_memories of the user's records (the new one       *)
(* included) remain, in memory and in the table, and every dropped record  *)
(* has an (importance_score, timestamp) pair not greater than that of      *)
(* every retained record; so among records of equal importance no dropped  *)
(* one is newer than a retained one.  An insert within the capacity drops  *)
(* nothing.                                                                *)
(***************************************************************************)
C2_EvictionOrder ==
    JustStored =>
        LET u == call.user_id
            offered == Append(ListOf(call.before.items, u), call.item)
            retained == SeqToSet(memory_items[u])
            dropped == SeqToSet(offered) \ retained
        IN  /\ retained \subseteq SeqToSet(offered)
            /\ RecordsOf(LoadMemoriesFromDb(db)) \cap dropped = {}
            /\ Len(offered) <= max_memories => dropped = {}
            /\ Len(offered) > max_memories => Len(memory_items[u]) = max_memories
            /\ \A d \in dropped, r \in retained : PairNotGreater(d, r)

\* more records of equal importance than the capacity: the oldest is the one absent
C2_Witness ==
    /\ JustStored
    /\ Len(call.removed) = 1
    /\ call.removed[1] \notin SeqToSet(memory_items[call.user_id])
    /\ \A i \in 1..Len(memory_items[call.user_id]) :
            LET r == memory_items[call.user_id][i]
            IN  /\ r.importance_score = call.removed[1].importance_score
                /\ r.timestamp > call.removed[1].timestamp

(***************************************************************************)
(* C3.  Failed write is not stored: after a store_memory call whose SQLite *)
(* insert raised, the record is not in the user's collection and memory    *)
(* holds the same records as the table.                                    *)
(***************************************************************************)
C3_FailedWriteNotStored ==
    JustRaised =>
        /\ call.item \notin SeqToSet(ListOf(memory_items, call.user_id))
        /\ RecordsOf(memory_items) = RecordsOf(LoadMemoriesFromDb(db))

(***************************************************************************)
(* C4.  Persistence equivalence: while no SQLite call has failed, the      *)
(* records a restart loads from the table are exactly the records held in  *)
(* memory, field by field.                                                 *)
(***************************************************************************)
C4_PersistenceEquivalence ==
    ~workload.db_errors => RecordsOf(LoadMemoriesFromDb(db)) = RecordsOf(memory_items)

(***************************************************************************)
(* C5.  Idempotence of insert.                                             *)
(***************************************************************************)
\* the records of the user whose content is the content of the last call
WithCallContent(items) ==
    {i \in 1..Len(ListOf(items, call.user_id)) :
        ListOf(items, call.user_id)[i].content = call.content}

\* the last call found everything as it was and returned the empty id
RejectedUnchanged ==
    /\ call.status = "rejected"
    /\ call.ret = EmptyId
    /\ memory_items = call.before.items
    /\ db = call.before.rows

CoexistingPairs ==
    UNION {{<<memory_items[u][k[1]], memory_items[u][k[2]]>> :
                k \in {ij \in (1..Len(memory_items[u])) \X (1..Len(memory_items[u])) :
                            ij[1] # ij[2]}} :
           u \in DOMAIN memory_items}

SameTrimmedContent(r1, r2) == Strip(r1.content) = Strip(r2.content)

\* same category, similarity over 0.9, and a content longer than 20 characters
SimilarOneLong(r1, r2) ==
    /\ r1.memory_type = r2.memory_type
    /\ Len(r1.content) > 20
    /\ Over90(SimilarityRatio(r1.content, r2.content))

\* same category, similarity over 0.9, and both contents longer than 20 characters
SimilarBothLong(r1, r2) ==
    /\ SimilarOneLong(r1, r2)
    /\ Len(r2.content) > 20

C7_RejectionIsNoOp ==
    JustRejected =>
        /\ call.ret = EmptyId
        /\ memory_items = call.before.items
        /\ db = call.before.rows
        /\ \A u \in UsersOf(workload), q \in workload.queries, limit \in 0..MaxLimit :
                SeqToSet(FallbackMemorySearch(memory_items, u, q, limit))
                    \subseteq SeqToSet(ListOf(call.before.items, u))

\* a candidate of too low an importance was offered to a user without a collection
C7_Witness ==
    /\ JustRejected
    /\ call.reason = "low importance"
    /\ call.user_id \notin DOMAIN memory_items

(***************************************************************************)
(* C8.  The rank key of the keyword retrieval.                             *)
(***************************************************************************)
JustSearched == call.op = "search"

\* i before j in the result
Ordered(i, j) == i \in 1..Len(call.out) /\ j \in 1..Len(call.out) /\ i < j

\* where a returned record stands in the user's collection
PlaceOf(r) == CHOOSE k \in 1..Len(memory_items[call.user_id]) :
                    memory_items[call.user_id][k] = r

DecayedKey(r) == KeywordScore(r, call.query) * GetCurrentImportance(r, call.now)
StoredKey(r) == KeywordScore(r, call.query) * r.importance_score

\* C8 as claimed: the result is ordered by keyword_score times the current,
\* decayed importance, so of two returned records with equal keyword score
\* and equal base importance the one that has decayed less comes first.
C8_RankByDecayedImportance ==
    JustSearched =>
        \A i, j \in 1..Len(call.out) :
            Ordered(i, j) => DecayedKey(call.out[i]) >= DecayedKey(call.out[j])

\* C8 amended: the result is ordered by keyword_score times the stored base
\* importance_score; decay plays no part, so two returned records with equal
\* keyword score and equal base importance come in the order in which they
\* stand in the user's collection, whatever their ages.
C8_RankByStoredImportance ==
    JustSearched =>
        \A i, j \in 1..Len(call.out) :
            Ordered(i, j) =>
                /\ StoredKey(call.out[i]) >= StoredKey(call.out[j])
                /\ StoredKey(call.out[i]) = StoredKey(call.out[j])
                        => PlaceOf(call.out[i]) < PlaceOf(call.out[j])

\* two returned records of equal keyword score and base importance, the first
\* of which has decayed more than the second
C8_Witness ==
    /\ JustSearched
    /\ Len(call.out) = 2
    /\ KeywordScore(call.out[1], call.query) = KeywordScore(call.out[2], call.query)
    /\ call.out[1].importance_score = call.out[2].importance_score
    /\ GetCurrentImportance(call.out[1], call.now) < GetCurrentImportance(call.out[2], call.now)

(***************************************************************************)
(* C9.  Retrieval user isolation: every record held in memory_items[u] has *)
(* user_id u, and every record the retrieval returns for u has user_id u.  *)
(***************************************************************************)
C9_UserIsolation ==
    /\ \A u \in DOMAIN memory_items :
            \A i \in 1..Len(memory_items[u]) : memory_items[u][i].user_id = u
    /\ JustSearched =>
            \A i \in 1..Len(call.out) : call.out[i].user_id = call.user_id

\* a retrieval returned a record while another user holds records too
C9_Witness ==
    /\ JustSearched
    /\ call.out # <<>>
    /\ \E u \in DOMAIN memory_items : u # call.user_id /\ memory_items[u] # <<>>

(***************************************************************************)
(* C10.  Retrieval result shape: the keyword retrieval returns at most     *)
(* limit records, each a record of the user in whose lower-cased content   *)
(* some whitespace-separated, lower-cased query word occurs, in order of   *)
(* non-increasing rank key; no matching record left out has a higher rank  *)
(* key than a returned one; a record without a matching word is never      *)
(* returned and a query without words returns nothing.                     *)
(***************************************************************************)
Matches(memory, query) ==
    \E i \in 1..Len(Split(Lower(query))) :
        Contains(Lower(memory.content), Split(Lower(query))[i])

C10_ResultShape ==
    JustSearched =>
        LET mine == SeqToSet(ListOf(memory_items, call.user_id))
            returned == SeqToSet(call.out)
        IN  /\ Len(call.out) <= call.limit
            /\ Cardinality(returned) = Len(call.out)
            /\ returned \subseteq mine
            /\ \A r \in returned : Matches(r, call.query) /\ StoredKey(r) > 0
            /\ \A i, j \in 1..Len(call.out) :
                    Ordered(i, j) => StoredKey(call.out[i]) >= StoredKey(call.out[j])
            /\ \A m \in mine \ returned : \A r \in returned :
                    Matches(m, call.query) => StoredKey(m) <= StoredKey(r)
            /\ Split(call.query) = <<>> => call.out = <<>>

\* the limit cut the result: a matching record was left out
C10_Witness ==
    /\ JustSearched
    /\ call.limit > 0
    /\ Len(call.out) = call.limit
    /\ \E m \in SeqToSet(memory_items[call.user_id]) \ SeqToSet(call.out) :
            Matches(m, call.query)

(***************************************************************************)
(* C11.  The order of records of equal rank key in a retrieval result.     *)
(***************************************************************************)
\* records i and j of the result, i before j, have the same rank key
Tied(i, j) == Ordered(i, j) /\ StoredKey(call.out[i]) = StoredKey(call.out[j])

\* the user's collection stands in the order of insertion
InInsertionOrder(l) ==
    \A a, b \in 1..Len(l) : a < b => l[a].timestamp <= l[b].timestamp

\* C11 as claimed: of two returned records of equal rank key the one created
\* more recently comes first.
C11_TiesNewestFirst ==
    JustSearched =>
        \A i, j \in 1..Len(call.out) :
            Tied(i, j) => call.out[i].timestamp >= call.out[j].timestamp

\* C11 amended: two returned records of equal rank key come in the order in
\* which they stand in the user's collection; while the collection stands in
\* the order of insertion that is the older one first.
C11_TiesInCollectionOrder ==
    JustSearched =>
        \A i, j \in 1..Len(call.out) :
            Tied(i, j) =>
                /\ PlaceOf(call.out[i]) < PlaceOf(call.out[j])
                /\ InInsertionOrder(memory_items[call.user_id])
                        => call.out[i].timestamp <= call.out[j].timestamp

\* two records of equal rank key were returned, the older one first
C11_Witness ==
    /\ JustSearched
    /\ \E i, j \in 1..Len(call.out) :
            Tied(i, j) /\ call.out[i].timestamp < call.out[j].timestamp

(***************************************************************************)
(* C12.  The exact-duplicate rule and letter case.                         *)
(***************************************************************************)
JustCalled == call.op = "store_memory"

\* the records the user held before the call whose trimmed content is that of
\* the candidate, and those for which it is so when letter case is ignored
SameContent == {i \in 1..Len(ListOf(call.before.items, call.user_id)) :
    Strip(ListOf(call.before.items, call.user_id)[i].content) = Strip(call.content)}
SameContentIgnoringCase == {i \in 1..Len(ListOf(call.before.items, call.user_id)) :
    Lower(Strip(ListOf(call.before.items, call.user_id)[i].content))
        = Lower(Strip(call.content))}

\* C12 as claimed: a candidate whose trimmed content equals, ignoring letter
\* case, the trimmed content of a record the user holds (in any category) is
\* rejected and not stored.
C12_ExactDuplicateIgnoresCase ==
    JustCalled /\ SameContentIgnoringCase # {} => RejectedUnchanged

\* C12 amended: a candidate whose trimmed content equals, letter for letter,
\* the trimmed content of a record the user holds (in any category) is
\* rejected and not stored; one that equals such a content only when letter
\* case is ignored is not rejected by this rule: if it is rejected, it is as
\* a near duplicate, being longer than 20 characters and in the category of
\* a similar record, or for its low importance.
C12_ExactDuplicateRespectsCase ==
    /\ JustCalled /\ SameContent # {} => RejectedUnchanged
    /\ JustRejected /\ SameContent = {} /\ SameContentIgnoringCase # {} =>
            \/ call.reason = "low importance"
            \/ /\ call.reason = "similar duplicate"
               /\ Len(call.content) > 20
               /\ \E i \in 1..Len(call.before.items[call.user_id]) :
                    call.before.items[call.user_id][i].memory_type = call.memory_type

\* a candidate that differs from a stored content in letter case only was stored
C12_Witness ==
    /\ JustStored
    /\ SameContent = {}
    /\ SameContentIgnoringCase # {}
    /\ \E i \in SameContentIgnoringCase :
            call.before.items[call.user_id][i].memory_type = call.memory_type

(***************************************************************************)
(* C13.  The scope of the near-duplicate rule.                             *)
(***************************************************************************)
\* the records the user held before the call that are of the candidate's
\* category and more than 90% similar to the candidate
SimilarOfCategory == {i \in 1..Len(ListOf(call.before.items, call.user_id)) :
    /\ ListOf(call.before.items, call.user_id)[i].memory_type = call.memory_type
    /\ Over90(SimilarityRatio(ListOf(call.before.items, call.user_id)[i].content,
                              call.content))}

\* the condition of the rule
NearDuplicateCondition == Len(call.content) > 20 /\ SimilarOfCategory # {}

\* C13 as claimed: a candidate is rejected as a near duplicate if and only if
\* it is longer than 20 characters and some record the user holds has its
\* category and a similarity ratio over 0.9 with it.
C13_NearDuplicateIff ==
    JustCalled => (call.reason = "similar duplicate" <=> NearDuplicateCondition)

\* C13 amended: a candidate is rejected as a near duplicate only if it is
\* longer than 20 characters and some record the user holds has its category
\* and a similarity ratio over 0.9 with it; a candidate for which that holds
\* is rejected, as a near duplicate unless an earlier check rejects it: as too
\* short once trimmed, or as the exact duplicate of a record.
C13_NearDuplicateScope ==
    JustCalled =>
        /\ call.reason = "similar duplicate" => NearDuplicateCondition
        /\ NearDuplicateCondition =>
                /\ JustRejected
                /\ call.reason \in {"similar duplicate", "exact duplicate", "too short"}
                /\ call.reason = "exact duplicate" => SameContent # {}
                /\ call.reason = "too short" => Len(Strip(call.content)) < MIN_LENGTH
        /\ NearDuplicateCondition /\ SameContent = {}
                /\ Len(Strip(call.content)) >= MIN_LENGTH
                => call.reason = "similar duplicate"

\* a candidate of 20 characters was stored next to a record of its category
\* that is more than 90% similar to it
C13_Witness ==
    /\ JustStored
    /\ Len(call.content) <= 20
    /\ SimilarOfCategory # {}

(***************************************************************************)
(* C14.  Similar content is rejected (test_similarity_detection).          *)
(***************************************************************************)
\* the user held a record of content c in the candidate's category before the call
HeldInCategory(c) ==
    \E i \in 1..Len(ListOf(call.before.items, call.user_id)) :
        /\ ListOf(call.before.items, call.user_id)[i].content = c
        /\ ListOf(call.before.items, call.user_id)[i].memory_type = call.memory_type

\* C14: with the original sentence stored for the user, a store_memory call
\* in the same category with the sentence changed by one inserted character
\* and a dropped suffix returns the empty id and stores nothing, while a
\* call with the partially similar or with the unrelated sentence stores it.
C14_SimilarContentRejected ==
    JustCalled /\ HeldInCategory(c_sleepless) =>
        /\ call.content = c_sleepless_ni => RejectedUnchanged
        /\ call.content \in {c_some_anxiety, c_morning} /\ SameContent = {}
                => JustStored /\ call.ret # EmptyId

(***************************************************************************)
(* C15.  Valid short sentences are accepted (test_quality_filtering).      *)
(***************************************************************************)
\* C15: a store_memory call that returns, with a candidate of 5 or more
\* characters once trimmed that is not a generic phrase, duplicates nothing
\* the user holds and scores an importance of at least 0.15, returns a
\* non-empty id and stores the record, also when the candidate has fewer
\* than 10 characters and no whitespace.
C15_ValidShortSentencesAccepted ==
    /\ JustCalled
    /\ ~JustRaised
    /\ Len(Strip(call.content)) >= MIN_LENGTH
    /\ Strip(call.content) \notin generic_patterns
    /\ SameContent = {}
    /\ ~NearDuplicateCondition
    /\ call.item.importance_score >= MIN_IMPORTANCE
    => /\ JustStored
       /\ call.ret # EmptyId

(***************************************************************************)
(* C16.  Low-importance threshold: a candidate that passes the rules of    *)
(* _is_quality_memory is rejected exactly when its calculated importance   *)
(* is below 0.15, and every record in memory or in the table has an        *)
(* importance_score from 0.15 to 1.0.                                      *)
(***************************************************************************)
QualityReasons ==
    {"too short", "single word", "exact duplicate", "similar duplicate", "too generic"}

C16_LowImportanceThreshold ==
    /\ JustCalled /\ call.reason \notin QualityReasons =>
            (JustRejected <=> call.item.importance_score < MIN_IMPORTANCE)
    /\ \A r \in RecordsOf(memory_items) \cup RecordsOf(LoadMemoriesFromDb(db)) :
            r.importance_score >= MIN_IMPORTANCE /\ r.importance_score <= IScale

\* a candidate of importance 0.15 exactly was stored
C16_Witness ==
    /\ JustStored
    /\ call.item.importance_score = MIN_IMPORTANCE
    /\ call.item \in RecordsOf(memory_items)

(***************************************************************************)
(* C17.  store_memory with an empty user_id or an empty content.           *)
(***************************************************************************)
\* the candidate passes every rule of the gate
PassesGate ==
    /\ Len(Strip(call.content)) >= MIN_LENGTH
    /\ ~(Len(Split(call.content)) = 1 /\ Len(call.content) < 10)
    /\ SameContent = {}
    /\ ~NearDuplicateCondition
    /\ Strip(call.content) \notin generic_patterns
    /\ call.item.importance_score >= MIN_IMPORTANCE

\* C17 as claimed: a store_memory call with an empty user_id, or with a
\* content of length 0, is rejected by the first rule of the gate, returns
\* the empty id and creates no record and no collection.
C17_EmptyArgumentsRejected ==
    JustCalled /\ (call.user_id = "" \/ call.content = <<>>) =>
        /\ RejectedUnchanged
        /\ call.reason = "too short"

\* C17 amended: a store_memory call with a content of length 0 is rejected
\* by the first rule of the gate, returns the empty id and creates no record
\* and no collection, whatever the user_id; the user_id itself is not
\* examined: a candidate that passes the gate is stored under the empty
\* user_id as under any other.
C17_EmptyContentRejected ==
    /\ JustCalled /\ call.content = <<>> =>
            /\ RejectedUnchanged
            /\ call.reason = "too short"
    /\ JustCalled /\ call.user_id = "" /\ PassesGate =>
            /\ JustStored
            /\ call.ret # EmptyId
            /\ "" \in DOMAIN memory_items
            /\ call.item \in SeqToSet(memory_items[""]) \cup SeqToSet(call.removed)

\* an empty content was offered under the empty user_id, which holds a record
C17_Witness ==
    /\ JustRejected
    /\ call.content = <<>>
    /\ call.user_id = ""
    /\ ListOf(memory_items, "") # <<>>

(***************************************************************************)
(* C18.  Record ids are unique: no two records held in memory, and no two  *)
(* rows of the table, have the same id.                                    *)
(***************************************************************************)
\* the places <<user, index>> of the records held in memory
Places == UNION {{<<u, i>> : i \in 1..Len(memory_items[u])} : u \in DOMAIN memory_items}

C18_UniqueIds ==
    /\ \A p, q \in Places :
            p # q => memory_items[p[1]][p[2]].id # memory_items[q[1]][q[2]].id
    /\ \A i, j \in 1..Len(db) : i # j => db[i].id # db[j].id

(***************************************************************************)
(* C19.  Concurrent inserts.  store_memory has no point of suspension (its *)
(* one await runs _manage_memory_limit, which awaits nothing), so          *)
(* concurrently issued calls run one at a time, in any order and possibly  *)
(* with the same clock reading: the behaviours of Spec.                    *)
(***************************************************************************)
\* C19: whenever all calls issued so far have returned, no accepted record
\* is lost other than by eviction, no content is stored twice for a user,
\* every user is within the capacity, and the records in memory are the
\* rows of the table.
C19_ConcurrentInsertsSafe ==
    ~workload.db_errors =>
        /\ JustStored =>
                /\ call.item \in SeqToSet(memory_items[call.user_id]) \cup SeqToSet(call.removed)
                /\ SeqToSet(ListOf(call.before.items, call.user_id) \o <<call.item>>)
                        = SeqToSet(memory_items[call.user_id]) \cup SeqToSet(call.removed)
        /\ \A p \in CoexistingPairs : ~SameTrimmedContent(p[1], p[2])
        /\ WithinCapacity(memory_items)
        /\ DbRows = MemoryRows

(***************************************************************************)
(* C20.  Cross-user independence.                                          *)
(***************************************************************************)
\* the users other than the one of the last call that hold a collection
\* before or after it
OtherUsers == (DOMAIN memory_items \cup DOMAIN call.before.items) \ {call.user_id}

\* the collections with those of all users but user_id taken away
OnlyUser(items, user_id) == [u \in DOMAIN items \cap {user_id} |-> items[u]]

\* the rows of the users other than user_id
RowsOfOthers(rows, user_id) == {r \in SeqToSet(rows) : r.user_id # user_id}

\* the last call made again with no other user having records
AloneOutcome ==
    StoreMemoryOutcome(OnlyUser(call.before.items, call.user_id),
                       SelectSeq(call.before.rows, LAMBDA r : r.user_id = call.user_id),
                       [user_id |-> call.user_id, content |-> call.content,
                        memory_type |-> call.memory_type, metadata |-> call.metadata],
                       call.item.timestamp, JustRaised)

\* C20: a store_memory call for one user leaves the collection and the rows
\* of every other user as they were, and is accepted or rejected, for the
\* same reason, as it would be if no other user had any record.
C20_CrossUserIndependence ==
    JustCalled =>
        /\ \A u \in OtherUsers :
                /\ u \in DOMAIN memory_items /\ u \in DOMAIN call.before.items
                /\ memory_items[u] = call.before.items[u]
        /\ RowsOfOthers(db, call.user_id) = RowsOfOthers(call.before.rows, call.user_id)
        /\ AloneOutcome.status = call.status
        /\ AloneOutcome.reason = call.reason
        /\ AloneOutcome.ret = call.ret

\* a content that another user holds was stored for the user of the call
C20_Witness ==
    /\ JustStored
    /\ \E u \in OtherUsers : \E i \in 1..Len(memory_items[u]) :
            /\ memory_items[u][i].content = call.content
            /\ memory_items[u][i].memory_type = call.memory_type
            /\ RowOf(memory_items[u][i]) \in DbRows

(***************************************************************************)
(* C21  Importance is bounded: calculate_importance returns a value in     *)
(* [0.1, 1.0] for every non-empty content, every category and every        *)
(* metadata (timestamp missing, unparsable, old or in the future); the     *)
(* call returns, it does not raise; a category that is not in the table    *)
(* of weights gets what the weight 0.5 of support_system gets.             *)
(***************************************************************************)
JustCalculated == call.op = "calculate_importance"

C21_ImportanceBounded ==
    JustCalculated /\ call.content # <<>> =>
        /\ call.ret \in (IScale \div 10)..IScale
        /\ call.memory_type \notin DOMAIN TYPE_IMPORTANCE_WEIGHTS =>
                /\ TYPE_IMPORTANCE_WEIGHTS["support_system"] = 5
                /\ call.ret = CalculateImportance(call.content, "support_system",
                                                  call.metadata, call.now)

\* a category outside the table with an unparsable timestamp: 0.5 * 1.5 * 1.1
C21_Witness ==
    /\ JustCalculated
    /\ call.memory_type = "hobby"
    /\ call.metadata.timestamp = BadTimestamp
    /\ call.content = c_long_anxious
    /\ call.ret = 8250

(***************************************************************************)
(* C22  Decay model: get_current_importance of a record is its             *)
(* importance_score times a factor given by the whole days of its age:     *)
(* 1.0 at 0 days, 0.95 up to 1, 0.85 up to 7, 0.65 up to 30, 0.45 up to    *)
(* 90, 0.25 beyond.  For symptoms, goals, medication, personality and      *)
(* work_status the factor is never below 0.7; for every other category     *)
(* the table is followed exactly.                                          *)
(***************************************************************************)
JustDecayed == call.op = "get_current_importance"

\* the whole days between the record's timestamp and the clock reading
WholeDays(now, timestamp) ==
    CHOOSE d \in -2..400 : d * TicksPerDay <= now - timestamp
                           /\ now - timestamp < (d + 1) * TicksPerDay

\* the factor of the table, in hundredths
TableFactor(days) ==
    CASE days = 0 -> 100
      [] days # 0 /\ days <= 1 -> 95
      [] days > 1 /\ days <= 7 -> 85
      [] days > 7 /\ days <= 30 -> 65
      [] days > 30 /\ days <= 90 -> 45
      [] days > 90 -> 25

PersistentCategories == {"symptoms", "goals", "medication", "personality", "work_status"}

C22_DecayModel ==
    JustDecayed =>
        LET factor == TableFactor(WholeDays(call.now, call.memory.timestamp))
        IN  IF call.memory.memory_type \in PersistentCategories
            THEN /\ call.ret = call.memory.importance_score * Max(factor, 70)
                 /\ call.ret >= call.memory.importance_score * 70
            ELSE call.ret = call.memory.importance_score * factor

\* a record of a persistent category and one of another category, a year old
C22_Witness ==
    /\ JustDecayed
    /\ call.now - call.memory.timestamp = 365 * TicksPerDay
    /\ call.memory.memory_type = "symptoms"
    /\ call.ret = 70 * call.memory.importance_score

C22_WitnessOther ==
    /\ JustDecayed
    /\ call.now - call.memory.timestamp = 365 * TicksPerDay
    /\ call.memory.memory_type = "emotional_state"
    /\ call.ret = 25 * call.memory.importance_score

(***************************************************************************)
(* C25  Weak-emotion multiplier: when the emotional intensity of the       *)
(* content is at most 0.3 (a hedge word with no high or medium keyword),   *)
(* calculate_importance multiplies the base weight by 0.5; it multiplies   *)
(* by 0.7 only when the intensity is above 0.3 and at most 0.4.            *)
(***************************************************************************)
C25_WeakEmotionMultiplier ==
    JustCalculated =>
        /\ call.emotional_score <= 3 => call.emotional_multiplier = 5
        /\ call.emotional_multiplier = 7 =>
                call.emotional_score > 3 /\ call.emotional_score <= 4

\* what the code does for a hedge word alone: intensity 0.3, factor 0.7
C25_HedgeAloneGetsSevenTenths ==
    /\ JustCalculated
    /\ call.content = c_little_curious
    /\ call.memory_type = "concerns"
    /\ call.metadata.timestamp = NoTimestamp
    /\ call.emotional_score = 3
    /\ call.emotional_multiplier = 7
    /\ call.ret = 6300

(***************************************************************************)
(* C26  Emotional intensity precedence.  As claimed: the intensity is 0.9  *)
(* whenever the content contains a high-intensity keyword, otherwise 0.6   *)
(* whenever it contains a medium-intensity keyword; a hedge keyword lowers *)
(* the value only to something within 0.3 to 0.6; a content with no        *)
(* keyword gets 0.5.                                                       *)
(* As the code has it: the hedge keywords are looked at first.  Without a  *)
(* hedge keyword the intensity is 0.9 with a high keyword, otherwise 0.6   *)
(* with a medium keyword, otherwise 0.5; with a hedge keyword it is 0.6    *)
(* with a high keyword, otherwise 0.4 with a medium keyword, otherwise 0.3.*)
(***************************************************************************)
\* the content, in lower case, contains a keyword of the level
HasKeyword(level, content) ==
    \E word \in EMOTIONAL_KEYWORDS[level] : Contains(Lower(content), word)

C26_KeywordPrecedence ==
    JustCalculated =>
        LET high == HasKeyword("high", call.content)
            medium == HasKeyword("medium", call.content)
            hedge == HasKeyword("low", call.content)
        IN  /\ high => call.emotional_score = 9
            /\ ~high /\ medium => call.emotional_score = 6
            /\ hedge => call.emotional_score \in 3..6
            /\ ~high /\ ~medium /\ ~hedge => call.emotional_score = 5

C26_HedgeFirst ==
    JustCalculated =>
        LET high == HasKeyword("high", call.content)
            medium == HasKeyword("medium", call.content)
            hedge == HasKeyword("low", call.content)
        IN  call.emotional_score =
                IF hedge
                THEN IF high THEN 6 ELSE IF medium THEN 4 ELSE 3
                ELSE IF high THEN 9 ELSE IF medium THEN 6 ELSE 5

\* a hedge word next to a high keyword
C26_Witness ==
    /\ JustCalculated
    /\ call.content = c_little_anxious
    /\ HasKeyword("high", call.content)
    /\ HasKeyword("low", call.content)
    /\ call.emotional_score = 6

(***************************************************************************)
(* C23  Records are never mutated in place: through every store_memory,    *)
(* retrieval, get_current_importance, get_memory_stats and eviction pass,  *)
(* a record that was held before the call and is not evicted by it is held *)
(* after it with the same id, user_id, content, memory_type,               *)
(* importance_score and timestamp, and if its row was in the table, that   *)
(* row is in the table after the call with the same values.                *)
(***************************************************************************)
JustRead == call.op \in {"search", "get_user_memories"}

\* the records the call evicted
Evicted == IF JustCalled THEN SeqToSet(call.removed) ELSE {}

C23_RecordsNeverMutated ==
    JustCalled \/ JustRead =>
        \A r \in RecordsOf(call.before.items) \ Evicted :
            /\ r \in RecordsOf(memory_items)
            /\ RowOf(r) \in SeqToSet(call.before.rows) => RowOf(r) \in DbRows

(***************************************************************************)
(* C24  Stats reflect the store: get_memory_stats of a user returns        *)
(* total_memories equal to the number of records the user holds, by_type   *)
(* with one entry per category present whose counts add up to the total,   *)
(* and avg_importance equal to the mean of the stored importance_score     *)
(* values; for a user with no records it returns total 0, an empty by_type *)
(* and avg_importance 0.0 and creates no collection for the user.          *)
(***************************************************************************)
JustListed == call.op = "get_user_memories"

\* the sum of the importance_score of the records of a list
SumOfImportance(l) ==
    LET sum[k \in 0..Len(l)] == IF k = 0 THEN 0 ELSE sum[k - 1] + l[k].importance_score
    IN  sum[Len(l)]

\* the sum of the counts of by_type
SumOfCounts(by_type) ==
    LET sum[T \in SUBSET DOMAIN by_type] ==
            IF T = {} THEN 0
            ELSE LET t == CHOOSE t \in T : TRUE IN by_type[t] + sum[T \ {t}]
    IN  sum[DOMAIN by_type]

C24_StatsReflectStore ==
    JustListed =>
        LET l == ListOf(call.before.items, call.user_id)
            stats == call.stats
        IN  /\ stats.total_memories = Len(l)
            /\ DOMAIN stats.by_type = {l[i].memory_type : i \in 1..Len(l)}
            /\ \A t \in DOMAIN stats.by_type :
                    stats.by_type[t] = Cardinality({i \in 1..Len(l) : l[i].memory_type = t})
            /\ SumOfCounts(stats.by_type) = stats.total_memories
            /\ stats.avg_importance[2] > 0
            /\ IF Len(l) = 0
               THEN /\ stats.avg_importance[1] = 0
                    /\ stats.by_type = <<>>
                    /\ DOMAIN memory_items = DOMAIN call.before.items
               ELSE stats.avg_importance[1] * Len(l)
                        = SumOfImportance(l) * stats.avg_importance[2]

\* a user with two records of different categories and importance, next to
\* another user
C24_Witness ==
    /\ JustListed
    /\ call.stats.total_memories = 2
    /\ Cardinality(DOMAIN call.stats.by_type) = 2
    /\ call.stats.avg_importance = <<18000, 2>>
    /\ DOMAIN memory_items # {call.user_id}

\* a user without a collection
C24_WitnessNoRecords ==
    /\ JustListed
    /\ call.user_id \notin DOMAIN memory_items
    /\ memory_items # <<>>
    /\ call.stats.total_memories = 0

(***************************************************************************)
(* C27  Gate rules fire in order, first match wins.  As claimed: the       *)
(* reason reported for a rejected candidate is that of the first violated  *)
(* rule in the order too short, single token, exact duplicate, near        *)
(* duplicate, too generic, low importance, so that a candidate that        *)
(* exactly duplicates any record of the user is reported as an exact       *)
(* duplicate even when it is a near duplicate of another one; and a        *)
(* generic phrase is rejected whatever its category and importance.        *)
(* As the code has it: the two duplicate rules are one rule, decided by    *)
(* the first record of the collection that the candidate duplicates        *)
(* either way.                                                             *)
(***************************************************************************)
\* the records the user held before the call that the candidate duplicates
\* nearly
NearHits == IF Len(call.content) > 20 THEN SimilarOfCategory ELSE {}

\* what the rules before and after the duplicate rules say
ReasonBeforeDuplicates ==
    IF Len(Strip(call.content)) < 5 THEN "too short"
    ELSE IF Len(Split(call.content)) = 1 /\ Len(call.content) < 10 THEN "single word"
    ELSE "OK"

ReasonAfterDuplicates ==
    IF Strip(call.content) \in generic_patterns THEN "too generic"
    ELSE IF call.item.importance_score < MIN_IMPORTANCE THEN "low importance"
    ELSE "OK"

ClaimedReason ==
    IF ReasonBeforeDuplicates # "OK" THEN ReasonBeforeDuplicates
    ELSE IF SameContent # {} THEN "exact duplicate"
    ELSE IF NearHits # {} THEN "similar duplicate"
    ELSE ReasonAfterDuplicates

ReasonByFirstDuplicate ==
    IF ReasonBeforeDuplicates # "OK" THEN ReasonBeforeDuplicates
    ELSE IF SameContent \cup NearHits # {}
    THEN IF (CHOOSE i \in SameContent \cup NearHits :
                \A j \in SameContent \cup NearHits : i <= j) \in SameContent
         THEN "exact duplicate"
         ELSE "similar duplicate"
    ELSE ReasonAfterDuplicates

C27_RulesInOrder ==
    JustCalled /\ ~JustRaised =>
        /\ call.reason = ClaimedReason
        /\ JustRejected <=> call.reason # "OK"
        /\ Strip(call.content) \in generic_patterns => JustRejected

C27_RulesInCollectionOrder ==
    JustCalled /\ ~JustRaised =>
        /\ call.reason = ReasonByFirstDuplicate
        /\ JustRejected <=> call.reason # "OK"
        /\ Strip(call.content) \in generic_patterns => JustRejected

\* a candidate that repeats one record and resembles an earlier one
C27_Witness ==
    /\ JustRejected
    /\ SameContent # {}
    /\ NearHits # {}
    /\ \E i \in NearHits : \A j \in SameContent : i < j
    /\ call.reason = "similar duplicate"

(***************************************************************************)
(* C28  A returned id denotes a stored record: whenever store_memory       *)
(* returns a non-empty id, a record with that id is in the user's          *)
(* collection and in the table when the call returns, also when the        *)
(* insert triggered an eviction pass.                                      *)
(***************************************************************************)
C28_ReturnedIdIsStored ==
    JustCalled /\ call.ret # EmptyId =>
        /\ \E r \in SeqToSet(ListOf(memory_items, call.user_id)) : r.id = call.ret
        /\ \E row \in DbRows : row.id = call.ret

(***************************************************************************)
(* C29  Duplicate admission does not depend on insertion order.  As        *)
(* claimed: for any two admissible contents a and b of one category        *)
(* offered to the empty store of one user, as many records are stored      *)
(* after store(a); store(b) as after store(b); store(a).                   *)
(* As the code has it: that holds when a and b are both longer than 20     *)
(* characters, or neither is.                                              *)
(***************************************************************************)
NoItems == [u \in {} |-> <<>>]

\* the store held one record, persisted, of the caller and of the category
\* of the call
SoleRecord ==
    /\ DOMAIN call.before.items = {call.user_id}
    /\ Len(call.before.items[call.user_id]) = 1
    /\ call.before.rows = <<RowOf(call.before.items[call.user_id][1])>>
    /\ call.before.items[call.user_id][1].memory_type = call.memory_type

\* the call, on the empty store, stores its content
Admissible ==
    StoreMemoryOutcome(NoItems, <<>>,
                       Request(call.user_id, call.content, call.memory_type,
                               call.metadata.timestamp),
                       call.item.timestamp, FALSE).status = "stored"

\* the records held after the two calls made in the other order
CountInOtherOrder(first, second, a) ==
    Len(ListOf(StoreMemoryOutcome(first.items, first.rows,
                                  Request(a.user_id, a.content, a.memory_type,
                                          a.metadata.timestamp),
                                  second, FALSE).items,
               a.user_id))

OtherOrder ==
    CountInOtherOrder(
        StoreMemoryOutcome(NoItems, <<>>,
                           Request(call.user_id, call.content, call.memory_type,
                                   call.metadata.timestamp),
                           call.before.items[call.user_id][1].timestamp, FALSE),
        call.item.timestamp,
        call.before.items[call.user_id][1])

BothLongOrNeither ==
    (Len(call.content) > 20) = (Len(call.before.items[call.user_id][1].content) > 20)

C30_ReadsAreSideEffectFree ==
    JustRead =>
        /\ memory_items = call.before.items
        /\ db = call.before.rows
        /\ JustSearched =>
                FallbackMemorySearch(memory_items, call.user_id, call.query, call.limit)
                    = call.out

\* a retrieval that returned two records of a list that is not in the
\* order of importance
C30_Witness ==
    /\ JustSearched
    /\ Len(call.out) = 2
    /\ \E i, j \in 1..Len(ListOf(memory_items, call.user_id)) :
            /\ i < j
            /\ memory_items[call.user_id][i].importance_score
                    < memory_items[call.user_id][j].importance_score
====
